---------------------------- MODULE Spec2Model ----------------------------
(* Type-level fractions of typenum (src/src/frac.rs).                      *)
(*                                                                         *)
(* Every fraction type is a value [k, n, d]:                               *)
(*   UF0          the unsigned zero singleton  (Numer = U0, Denom = U1)    *)
(*   UFrac<N, D>  an unsigned fraction, N any natural, D non-zero          *)
(*   F0           the signed zero singleton    (Numer = Z0, Denom = U1)    *)
(*   PFrac<U>     a positive wrapper of an UnsignedRational U              *)
(*   NFrac<U>     a negative wrapper of an UnsignedRational U              *)
(* PFrac/NFrac carry Numer and Denom of the wrapped U; as UnsignedRational *)
(* is implemented for UF0 and for UFrac with a NonZero numerator only, a   *)
(* wrapper with n = 0 is the wrapper of UF0.                               *)
(* A trait that has no impl for the operand types yields Undef: the        *)
(* expression does not type-check and no result exists.                    *)
EXTENDS Integers, FiniteSets, Sequences, TLC

VARIABLES lhs, rhs, third, op, out, alt, ord

vars == <<lhs, rhs, third, op, out, alt, ord>>

\* Largest numerator and denominator of the operands drawn in Init.
MaxN == 5

\* Largest numerator and denominator of a result that is fed back as operand.
MaxFeed == 8

\* Largest magnitude of the integers converted by IntoRational.
MaxInt == 2

\* Largest numerator and denominator of the third operand of a three-operand
\* expression.
MaxThird == 3

\* Largest magnitude of the exponent of Pow.
MaxExp == 3

---------------------------------------------------------------------------
(* Integer primitive layer: type-level naturals. -1 stands for "no such    *)
(* type": the operator has no impl for the operands.                       *)

NoInt == -1

RECURSIVE Gcd(_, _)
Gcd(a, b) == IF b = 0 THEN a ELSE Gcd(b, a % b)

Gcf(a, b) == IF a < 0 \/ b < 0 THEN NoInt ELSE Gcd(a, b)

Lcm(a, b) == IF a < 1 \/ b < 1 THEN NoInt ELSE (a * b) \div Gcd(a, b)

PartialQuot(a, b) ==
    IF a < 0 \/ b < 1 THEN NoInt
    ELSE IF a % b = 0 THEN a \div b ELSE NoInt

Prod(a, b) == IF a < 0 \/ b < 0 THEN NoInt ELSE a * b

Sum(a, b) == IF a < 0 \/ b < 0 THEN NoInt ELSE a + b

Diff(a, b) == IF a < 0 \/ b < 0 \/ a < b THEN NoInt ELSE a - b

Compare(a, b) ==
    IF a < 0 \/ b < 0 THEN "Undef"
    ELSE IF a < b THEN "Less" ELSE IF a = b THEN "Equal" ELSE "Greater"

RECURSIVE Exp(_, _)
Exp(a, k) == IF k = 0 THEN 1 ELSE a * Exp(a, k - 1)

---------------------------------------------------------------------------
(* The fraction types.                                                     *)

Undef == [k |-> "Undef", n |-> 0, d |-> 0]

UF0 == [k |-> "UF0", n |-> 0, d |-> 1]

F0 == [k |-> "F0", n |-> 0, d |-> 1]

UFrac(n, d) ==
    IF n >= 0 /\ d >= 1 THEN [k |-> "UFrac", n |-> n, d |-> d] ELSE Undef

IsUnsigned(x) == x.k \in {"UF0", "UFrac"}

IsSigned(x) == x.k \in {"F0", "PFrac", "NFrac"}

UnsignedRational(u) == u.k = "UF0" \/ (u.k = "UFrac" /\ u.n > 0)

NonZeroUFrac(u) == u.k = "UFrac" /\ u.n > 0

PFrac(u) ==
    IF UnsignedRational(u) THEN [k |-> "PFrac", n |-> u.n, d |-> u.d] ELSE Undef

NFrac(u) ==
    IF UnsignedRational(u) THEN [k |-> "NFrac", n |-> u.n, d |-> u.d] ELSE Undef

\* self.0 of a PFrac or NFrac
Inner(x) == IF x.n = 0 THEN UF0 ELSE UFrac(x.n, x.d)

IntoRational(i) ==
    IF i = 0 THEN F0
    ELSE IF i > 0 THEN PFrac(UFrac(i, 1)) ELSE NFrac(UFrac(-i, 1))

---------------------------------------------------------------------------
(* Trim                                                                    *)

\* TrimUFrac dividing the numerator only
TrimUFrac_NumerOnly(u) ==
    LET g == Gcf(u.n, u.d)
    IN  UFrac(PartialQuot(u.n, g), u.d)

TrimUFrac(u) ==
    LET g == Gcf(u.n, u.d)
    IN  UFrac(PartialQuot(u.n, g), PartialQuot(u.d, g))

UTrim(u) ==
    CASE u.k = "UF0" -> UF0
      [] u.k = "UFrac" /\ u.n = 0 -> UF0
      [] u.k = "UFrac" /\ u.n > 0 -> TrimUFrac(u)
      [] OTHER -> Undef

TrimPFrac(x) == PFrac(UTrim(Inner(x)))

TrimNFrac(x) == NFrac(UTrim(Inner(x)))

Trim(x) ==
    CASE IsUnsigned(x) -> UTrim(x)
      [] x.k = "F0" -> F0
      [] x.k = "PFrac" -> TrimPFrac(x)
      [] x.k = "NFrac" -> TrimNFrac(x)
      [] OTHER -> Undef

---------------------------------------------------------------------------
(* Cmp                                                                     *)

CmpUFrac(l, r) == Compare(Prod(l.n, r.d), Prod(r.n, l.d))

UCmp(l, r) ==
    CASE l.k = "UF0" /\ r.k = "UF0" -> "Equal"
      [] l.k = "UF0" /\ NonZeroUFrac(r) -> "Less"
      [] NonZeroUFrac(l) /\ r.k = "UF0" -> "Greater"
      [] NonZeroUFrac(l) /\ NonZeroUFrac(r) -> CmpUFrac(l, r)
      [] OTHER -> "Undef"

CmpPP(l, r) == UCmp(Inner(l), Inner(r))

\* CmpNN without the reversal of the magnitudes
CmpNN_Unreversed(l, r) == UCmp(Inner(l), Inner(r))

CmpNN(l, r) == UCmp(Inner(r), Inner(l))

Cmp(l, r) ==
    CASE IsUnsigned(l) /\ IsUnsigned(r) -> UCmp(l, r)
      [] l.k = "F0" /\ r.k = "F0" -> "Equal"
      [] l.k = "F0" /\ r.k = "PFrac" /\ r.n > 0 -> "Less"
      [] l.k = "F0" /\ r.k = "NFrac" /\ r.n > 0 -> "Greater"
      [] l.k = "PFrac" /\ l.n > 0 /\ r.k = "F0" -> "Greater"
      [] l.k = "NFrac" /\ l.n > 0 /\ r.k = "F0" -> "Less"
      [] l.k = "PFrac" /\ r.k = "PFrac" -> CmpPP(l, r)
      [] l.k = "PFrac" /\ r.k = "NFrac" -> "Greater"
      [] l.k = "NFrac" /\ r.k = "PFrac" -> "Less"
      [] l.k = "NFrac" /\ r.k = "NFrac" -> CmpNN(l, r)
      [] OTHER -> "Undef"

---------------------------------------------------------------------------
(* Add                                                                     *)

\* AddUFrac adding the cross products without dividing them by the gcd
AddUFrac_NaiveNumer(l, r) ==
    UFrac(Sum(Prod(l.n, r.d), Prod(r.n, l.d)), Lcm(l.d, r.d))

AddUFrac(l, r) ==
    LET g == Gcf(l.d, r.d)
    IN  UFrac(Sum(PartialQuot(Prod(l.n, r.d), g), PartialQuot(Prod(r.n, l.d), g)),
              Lcm(l.d, r.d))

UAdd(l, r) ==
    CASE l.k = "UF0" /\ r.k = "UF0" -> UF0
      [] NonZeroUFrac(l) /\ r.k = "UF0" -> l
      [] l.k = "UF0" /\ NonZeroUFrac(r) -> r
      [] NonZeroUFrac(l) /\ NonZeroUFrac(r) -> AddUFrac(l, r)
      [] OTHER -> Undef

---------------------------------------------------------------------------
(* Sub on unsigned fractions                                               *)

PrivateSub(l, r) ==
    LET g == Gcf(l.d, r.d)
    IN  UFrac(Diff(PartialQuot(Prod(l.n, r.d), g), PartialQuot(Prod(r.n, l.d), g)),
              Lcm(l.d, r.d))

SubUFrac(l, r) == UTrim(PrivateSub(l, r))

USub(l, r) ==
    CASE l.k = "UF0" /\ r.k = "UF0" -> UF0
      [] l.k = "UFrac" /\ r.k = "UF0" -> l
      [] NonZeroUFrac(l) /\ NonZeroUFrac(r) -> SubUFrac(l, r)
      [] OTHER -> Undef

---------------------------------------------------------------------------
(* Signed Add                                                              *)

\* PrivateRationalAdd subtracting the larger magnitude from the smaller
PrivateRationalAdd_LessUnswapped(p, c, n) ==
    CASE c = "Equal" -> F0
      [] c = "Greater" -> PFrac(USub(p, n))
      [] c = "Less" -> NFrac(USub(p, n))
      [] OTHER -> Undef

\* PrivateRationalAdd taking equal magnitudes as the Greater case
PrivateRationalAdd_NoEqual(p, c, n) ==
    CASE c \in {"Equal", "Greater"} -> PFrac(USub(p, n))
      [] c = "Less" -> NFrac(USub(n, p))
      [] OTHER -> Undef

\* p.private_rational_add(c, n): p is the positive magnitude, n the negative
PrivateRationalAdd(p, c, n) ==
    CASE c = "Equal" -> F0
      [] c = "Greater" -> PFrac(USub(p, n))
      [] c = "Less" -> NFrac(USub(n, p))
      [] OTHER -> Undef

AddPP(l, r) == PFrac(UAdd(Inner(l), Inner(r)))

AddNN(l, r) == NFrac(UAdd(Inner(l), Inner(r)))

AddPN(l, r) ==
    PrivateRationalAdd(Inner(l), UCmp(Inner(l), Inner(r)), Inner(r))

\* AddNP without the swap of the roles
AddNP_Unswapped(l, r) ==
    PrivateRationalAdd(Inner(l), UCmp(Inner(l), Inner(r)), Inner(r))

AddNP(l, r) ==
    PrivateRationalAdd(Inner(r), UCmp(Inner(r), Inner(l)), Inner(l))

Add(l, r) ==
    CASE IsUnsigned(l) /\ IsUnsigned(r) -> UAdd(l, r)
      [] l.k = "F0" /\ r.k = "F0" -> F0
      [] l.k = "F0" /\ r.k \in {"PFrac", "NFrac"} -> r
      [] l.k \in {"PFrac", "NFrac"} /\ r.k = "F0" -> l
      [] l.k = "PFrac" /\ r.k = "PFrac" -> AddPP(l, r)
      [] l.k = "NFrac" /\ r.k = "NFrac" -> AddNN(l, r)
      [] l.k = "PFrac" /\ r.k = "NFrac" -> AddPN(l, r)
      [] l.k = "NFrac" /\ r.k = "PFrac" -> AddNP(l, r)
      [] OTHER -> Undef

---------------------------------------------------------------------------
(* Signed Sub                                                              *)

SubZP(r) == NFrac(Inner(r))

SubZN(r) == PFrac(Inner(r))

SubPP(l, r) ==
    PrivateRationalAdd(Inner(l), UCmp(Inner(l), Inner(r)), Inner(r))

\* SubNN without the swap of the roles
SubNN_Unswapped(l, r) ==
    PrivateRationalAdd(Inner(l), UCmp(Inner(l), Inner(r)), Inner(r))

SubNN(l, r) ==
    PrivateRationalAdd(Inner(r), UCmp(Inner(r), Inner(l)), Inner(l))

SubPN(l, r) == PFrac(UAdd(Inner(l), Inner(r)))

SubNP(l, r) == NFrac(UAdd(Inner(l), Inner(r)))

Sub(l, r) ==
    CASE IsUnsigned(l) /\ IsUnsigned(r) -> USub(l, r)
      [] l.k = "F0" /\ r.k = "F0" -> F0
      [] l.k = "F0" /\ r.k = "PFrac" -> SubZP(r)
      [] l.k = "F0" /\ r.k = "NFrac" -> SubZN(r)
      [] l.k \in {"PFrac", "NFrac"} /\ r.k = "F0" -> l
      [] l.k = "PFrac" /\ r.k = "PFrac" -> SubPP(l, r)
      [] l.k = "NFrac" /\ r.k = "NFrac" -> SubNN(l, r)
      [] l.k = "PFrac" /\ r.k = "NFrac" -> SubPN(l, r)
      [] l.k = "NFrac" /\ r.k = "PFrac" -> SubNP(l, r)
      [] OTHER -> Undef

---------------------------------------------------------------------------
(* Mul                                                                     *)

\* MulUFrac without Trim
MulUFrac_NoTrim(l, r) == UFrac(Prod(l.n, r.n), Prod(l.d, r.d))

MulUFrac(l, r) == UTrim(UFrac(Prod(l.n, r.n), Prod(l.d, r.d)))

UMul(l, r) ==
    CASE l.k = "UF0" /\ r.k = "UF0" -> UF0
      [] l.k = "UFrac" /\ r.k = "UF0" -> r
      [] l.k = "UF0" /\ r.k = "UFrac" -> l
      [] l.k = "UFrac" /\ r.k = "UFrac" -> MulUFrac(l, r)
      [] OTHER -> Undef

MulPP(l, r) == PFrac(UMul(Inner(l), Inner(r)))

MulNN(l, r) == PFrac(UMul(Inner(l), Inner(r)))

MulPN(l, r) == NFrac(UMul(Inner(l), Inner(r)))

MulNP(l, r) == NFrac(UMul(Inner(l), Inner(r)))

Mul(l, r) ==
    CASE IsUnsigned(l) /\ IsUnsigned(r) -> UMul(l, r)
      [] l.k = "F0" /\ IsSigned(r) -> F0
      [] l.k \in {"PFrac", "NFrac"} /\ r.k = "F0" -> r
      [] l.k = "PFrac" /\ r.k = "PFrac" -> MulPP(l, r)
      [] l.k = "NFrac" /\ r.k = "NFrac" -> MulNN(l, r)
      [] l.k = "PFrac" /\ r.k = "NFrac" -> MulPN(l, r)
      [] l.k = "NFrac" /\ r.k = "PFrac" -> MulNP(l, r)
      [] OTHER -> Undef

---------------------------------------------------------------------------
(* Div                                                                     *)

\* DivUFrac multiplying by the divisor instead of its reciprocal
DivUFrac_NoReciprocal(l, r) == UMul(l, UFrac(r.n, r.d))

DivUFrac(l, r) == UMul(l, UFrac(r.d, r.n))

UDiv(l, r) ==
    CASE l.k = "UF0" /\ r.k = "UFrac" -> l
      [] l.k = "UFrac" /\ NonZeroUFrac(r) -> DivUFrac(l, r)
      [] OTHER -> Undef

DivPP(l, r) == PFrac(UDiv(Inner(l), Inner(r)))

DivNN(l, r) == PFrac(UDiv(Inner(l), Inner(r)))

\* DivPN with the sign of DivPP
DivPN_Positive(l, r) == PFrac(UDiv(Inner(l), Inner(r)))

DivPN(l, r) == NFrac(UDiv(Inner(l), Inner(r)))

DivNP(l, r) == NFrac(UDiv(Inner(l), Inner(r)))

Div(l, r) ==
    CASE IsUnsigned(l) /\ IsUnsigned(r) -> UDiv(l, r)
      [] l.k = "F0" /\ r.k \in {"PFrac", "NFrac"} -> l
      [] l.k = "PFrac" /\ r.k = "PFrac" -> DivPP(l, r)
      [] l.k = "NFrac" /\ r.k = "NFrac" -> DivNN(l, r)
      [] l.k = "PFrac" /\ r.k = "NFrac" -> DivPN(l, r)
      [] l.k = "NFrac" /\ r.k = "PFrac" -> DivNP(l, r)
      [] OTHER -> Undef

---------------------------------------------------------------------------
(* Pow: the exponent is U0, Z0, PInt<U> or NInt<U>, a value [k, n, d] with *)
(* n the magnitude.                                                        *)

U0 == [k |-> "U0", n |-> 0, d |-> 1]

Z0 == [k |-> "Z0", n |-> 0, d |-> 1]

PInt(u) == [k |-> "PInt", n |-> u, d |-> 1]

NInt(u) == [k |-> "NInt", n |-> u, d |-> 1]

\* PowPInt leaving the denominator as it is
PowPInt_NumerOnly(x, e) ==
    LET n == Exp(x.n, e.n)
    IN  IF n >= 1 THEN UFrac(n, x.d) ELSE Undef

PowPInt(x, e) ==
    LET n == Exp(x.n, e.n)
        d == Exp(x.d, e.n)
    IN  IF n >= 1 /\ d >= 1 THEN UFrac(n, d) ELSE Undef

Pow(x, e) ==
    CASE x.k = "UFrac" /\ e.k = "U0" -> UFrac(1, 1)
      [] x.k = "UFrac" /\ e.k = "Z0" -> UFrac(1, 1)
      [] x.k = "UFrac" /\ e.k = "PInt" -> PowPInt(x, e)
      [] OTHER -> Undef

---------------------------------------------------------------------------
(* Operands                                                                *)

UFracs(m) == {UFrac(n, d) : n \in 0..m, d \in 1..m}

Unsigneds(m) == {UF0} \cup UFracs(m)

Signeds(m) ==
    {F0} \cup {PFrac(u) : u \in {v \in Unsigneds(m) : UnsignedRational(v)}}
         \cup {NFrac(u) : u \in {v \in Unsigneds(m) : UnsignedRational(v)}}

\* Zero, or Positive/Negative wrapping a UFrac with non-zero numerator
WellFormedSigneds(m) == {x \in Signeds(m) : x.k = "F0" \/ x.n > 0}

\* the zero singleton, or a fraction in lowest terms
Canonical(x) ==
    \/ x.k \in {"UF0", "F0"}
    \/ x.k \in {"UFrac", "PFrac", "NFrac"} /\ x.n >= 1 /\ x.d >= 1 /\ Gcd(x.n, x.d) = 1

Thirds == {x \in Signeds(MaxThird) : Canonical(x)}

IntInputs == (0 - MaxInt)..MaxInt

Exponents == {U0, Z0} \cup {PInt(u) : u \in 1..MaxExp} \cup {NInt(u) : u \in 1..MaxExp}

Ready == op \in {"init", "feed", "convert"}

---------------------------------------------------------------------------
(* The expressions evaluated: lhs, rhs and third are the operand types, op *)
(* the operator applied, out its Output type (Undef when the expression    *)
(* does not type-check), ord the Output of Cmp.                            *)

Init ==
    /\ \/ lhs \in Unsigneds(MaxN) /\ rhs \in Unsigneds(MaxN)
       \/ lhs \in Signeds(MaxN) /\ rhs \in Signeds(MaxN)
    /\ third = Undef
    /\ op = "init"
    /\ out = Undef
    /\ alt = Undef
    /\ ord = "None"

\* TrimOut<lhs>, and the trimmed type trimmed again
TrimOp ==
    /\ Ready
    /\ op' = "trim"
    /\ out' = Trim(lhs)
    /\ alt' = Trim(Trim(lhs))
    /\ UNCHANGED <<lhs, rhs, third, ord>>

\* Compare<lhs, rhs>
CmpOp ==
    /\ Ready
    /\ op' = "cmp"
    /\ ord' = Cmp(lhs, rhs)
    /\ UNCHANGED <<lhs, rhs, third, out, alt>>

\* Sum<lhs, rhs>
AddOp ==
    /\ Ready
    /\ op' = "add"
    /\ out' = Add(lhs, rhs)
    /\ UNCHANGED <<lhs, rhs, third, alt, ord>>

\* Diff<lhs, rhs>
SubOp ==
    /\ Ready
    /\ op' = "sub"
    /\ out' = Sub(lhs, rhs)
    /\ UNCHANGED <<lhs, rhs, third, alt, ord>>

\* Prod<lhs, rhs>
MulOp ==
    /\ Ready
    /\ op' = "mul"
    /\ out' = Mul(lhs, rhs)
    /\ UNCHANGED <<lhs, rhs, third, alt, ord>>

\* Quot<lhs, rhs>
DivOp ==
    /\ Ready
    /\ op' = "div"
    /\ out' = Div(lhs, rhs)
    /\ UNCHANGED <<lhs, rhs, third, alt, ord>>

\* Prod<Quot<lhs, rhs>, rhs>
DivMulOp ==
    /\ Ready
    /\ op' = "divmul"
    /\ alt' = Div(lhs, rhs)
    /\ out' = Mul(Div(lhs, rhs), rhs)
    /\ UNCHANGED <<lhs, rhs, third, ord>>

\* Sum<Sum<lhs, rhs>, c> and Sum<lhs, Sum<rhs, c>>
AddAssocOp ==
    /\ Ready
    /\ IsSigned(lhs)
    /\ \E c \in Thirds :
        /\ third' = c
        /\ out' = Add(Add(lhs, rhs), c)
        /\ alt' = Add(lhs, Add(rhs, c))
    /\ op' = "addassoc"
    /\ UNCHANGED <<lhs, rhs, ord>>

\* Prod<Prod<lhs, rhs>, c> and Prod<lhs, Prod<rhs, c>>
MulAssocOp ==
    /\ Ready
    /\ IsSigned(lhs)
    /\ \E c \in Thirds :
        /\ third' = c
        /\ out' = Mul(Mul(lhs, rhs), c)
        /\ alt' = Mul(lhs, Mul(rhs, c))
    /\ op' = "mulassoc"
    /\ UNCHANGED <<lhs, rhs, ord>>

\* Exp<lhs, e>
PowOp ==
    /\ Ready
    /\ \E e \in Exponents :
        /\ third' = e
        /\ out' = Pow(lhs, e)
    /\ op' = "pow"
    /\ UNCHANGED <<lhs, rhs, alt, ord>>

Next ==
    \/ TrimOp
    \/ CmpOp
    \/ AddOp
    \/ SubOp
    \/ MulOp
    \/ DivOp
    \/ DivMulOp
    \/ AddAssocOp
    \/ MulAssocOp
    \/ PowOp

Spec == Init /\ [][Next]_vars

---------------------------------------------------------------------------
(* Sequences of signed operations from well-formed signed values and       *)
(* integer conversions: the Output of one expression is the left operand   *)
(* of the next.                                                            *)

InitWF ==
    /\ lhs \in WellFormedSigneds(MaxN)
    /\ rhs \in WellFormedSigneds(MaxN)
    /\ third = Undef
    /\ op = "init"
    /\ out = Undef
    /\ alt = Undef
    /\ ord = "None"

Feedable ==
    /\ op \in {"trim", "add", "sub", "mul", "div"}
    /\ out # Undef
    /\ out.n <= MaxFeed
    /\ out.d <= MaxFeed

Feed ==
    /\ Feedable
    /\ lhs' = out
    /\ rhs' \in WellFormedSigneds(MaxN)
    /\ op' = "feed"
    /\ out' = Undef
    /\ alt' = Undef
    /\ UNCHANGED <<third, ord>>

Convert ==
    /\ Feedable
    /\ lhs' = out
    /\ \E i \in IntInputs : rhs' = IntoRational(i)
    /\ op' = "convert"
    /\ out' = Undef
    /\ alt' = Undef
    /\ UNCHANGED <<third, ord>>

NextWF ==
    \/ TrimOp
    \/ AddOp
    \/ SubOp
    \/ MulOp
    \/ DivOp
    \/ Feed
    \/ Convert

SpecWF == InitWF /\ [][NextWF]_vars

---------------------------------------------------------------------------
(* Rational values: Numer / Denom of the types, and exact comparison and   *)
(* arithmetic of the values by cross-multiplication.                       *)

Numer(x) == IF x.k = "NFrac" THEN 0 - x.n ELSE x.n

Denom(x) == x.d

ValueOrder(x, y) ==
    LET a == Numer(x) * Denom(y)
        b == Numer(y) * Denom(x)
    IN  IF a < b THEN "Less" ELSE IF a = b THEN "Equal" ELSE "Greater"

Mirror(c) ==
    CASE c = "Less" -> "Greater"
      [] c = "Greater" -> "Less"
      [] OTHER -> c

Negate(x) ==
    CASE x.k = "PFrac" -> NFrac(Inner(x))
      [] x.k = "NFrac" -> PFrac(Inner(x))
      [] OTHER -> x

SameSign(x, y) == x.k = y.k

NonZeroSigned(x) == x.k \in {"PFrac", "NFrac"} /\ x.n > 0

WellFormedSigned(x) == x.k = "F0" \/ NonZeroSigned(x)

---------------------------------------------------------------------------
(* C1. Canonical-form closure: on canonical operands every arithmetic      *)
(* operator (Add, Sub, Mul, Div, unsigned and signed), wherever it is      *)
(* defined, yields a canonical result: the zero singleton, or a fraction   *)
(* in lowest terms; NFrac<UFrac<3,2>> + NFrac<UFrac<1,2>> is               *)
(* NFrac<UFrac<2,1>>.                                                      *)
C1_CanonicalClosure ==
    /\ (op \in {"add", "sub", "mul", "div"} /\ Canonical(lhs) /\ Canonical(rhs)
            /\ out # Undef)
        => Canonical(out)
    /\ (op = "add" /\ lhs = NFrac(UFrac(3, 2)) /\ rhs = NFrac(UFrac(1, 2)))
        => out = NFrac(UFrac(2, 1))

---------------------------------------------------------------------------
(* C2. Signed Add follows the sign-resolution table and is exact: Z + x =  *)
(* x, x + Z = x, P(a) + P(b) = P(a + b), N(a) + N(b) = N(a + b); P(a) +    *)
(* N(b) is Zero when a and b are equal in value, P(a - b) when a > b and   *)
(* N(b - a) when a < b, and N(a) + P(b) likewise with the roles swapped;   *)
(* P(u) + N(u) is Zero; and the value of the sum is the sum of the values. *)
C2_Table(l, r, o) ==
    LET a == Inner(l)
        b == Inner(r)
        c == ValueOrder(PFrac(a), PFrac(b))
    IN  /\ l.k = "F0" => o = r
        /\ r.k = "F0" => o = l
        /\ (l.k = "PFrac" /\ r.k = "PFrac") => o = PFrac(UAdd(a, b))
        /\ (l.k = "NFrac" /\ r.k = "NFrac") => o = NFrac(UAdd(a, b))
        /\ (l.k = "PFrac" /\ r.k = "NFrac") =>
              /\ c = "Equal" => o = F0
              /\ c = "Greater" => o = PFrac(USub(a, b))
              /\ c = "Less" => o = NFrac(USub(b, a))
        /\ (l.k = "NFrac" /\ r.k = "PFrac") =>
              /\ c = "Equal" => o = F0
              /\ c = "Less" => o = PFrac(USub(b, a))
              /\ c = "Greater" => o = NFrac(USub(a, b))
        /\ (l.k = "PFrac" /\ r.k = "NFrac" /\ a = b) => o = F0

C2_SignedAdd ==
    (op = "add" /\ IsSigned(lhs) /\ IsSigned(rhs)) =>
        /\ IsSigned(out)
        /\ C2_Table(lhs, rhs, out)
        /\ Numer(out) * Denom(lhs) * Denom(rhs)
             = (Numer(lhs) * Denom(rhs) + Numer(rhs) * Denom(lhs)) * Denom(out)

C2_Witness ==
    /\ op = "add"
    /\ lhs = PFrac(UFrac(1, 2))
    /\ rhs = NFrac(UFrac(1, 1))
    /\ out = NFrac(UFrac(1, 2))

---------------------------------------------------------------------------
(* C3. compare agrees with the exact rational value: on well-formed        *)
(* unsigned fractions it is the order of nl*dr against nr*dl; on signed    *)
(* fractions Zero vs Positive is Less, Zero vs Negative is Greater,        *)
(* Positive vs Negative is Greater, Positive(a) vs Positive(b) is          *)
(* compare(a, b) and Negative(a) vs Negative(b) is compare(b, a); and      *)
(* compare(b, a) is the mirror of compare(a, b).                           *)
C3_CompareOrder ==
    op = "cmp" =>
        /\ (UnsignedRational(lhs) /\ UnsignedRational(rhs)) =>
              /\ ord \in {"Less", "Equal", "Greater"}
              /\ ord = "Less" <=> lhs.n * rhs.d < rhs.n * lhs.d
              /\ ord = "Equal" <=> lhs.n * rhs.d = rhs.n * lhs.d
              /\ ord = "Greater" <=> lhs.n * rhs.d > rhs.n * lhs.d
        /\ (WellFormedSigned(lhs) /\ WellFormedSigned(rhs)) =>
              /\ ord = ValueOrder(lhs, rhs)
              /\ (lhs.k = "F0" /\ rhs.k = "PFrac") => ord = "Less"
              /\ (lhs.k = "F0" /\ rhs.k = "NFrac") => ord = "Greater"
              /\ (lhs.k = "PFrac" /\ rhs.k = "NFrac") => ord = "Greater"
              /\ (lhs.k = "PFrac" /\ rhs.k = "PFrac") => ord = UCmp(Inner(lhs), Inner(rhs))
              /\ (lhs.k = "NFrac" /\ rhs.k = "NFrac") => ord = UCmp(Inner(rhs), Inner(lhs))
        /\ Cmp(rhs, lhs) = Mirror(ord)

C3_Witness ==
    /\ op = "cmp"
    /\ lhs = NFrac(UFrac(1, 2))
    /\ rhs = NFrac(UFrac(1, 3))
    /\ ord = "Less"

---------------------------------------------------------------------------
(* C4. Trim canonicalizes and is idempotent: an unsigned fraction with     *)
(* numerator 0, and UF0, trim to UF0; otherwise the result is {n/g, d/g}   *)
(* with g = gcd(n, d), of the same value and in lowest terms (UFrac{2,4}   *)
(* trims to UFrac{1,2}); trimming the result again changes nothing.        *)
C4_TrimCanonical ==
    op = "trim" =>
        /\ alt = out
        /\ IsUnsigned(lhs) =>
              /\ lhs.n = 0 => out = UF0
              /\ lhs.n > 0 =>
                    /\ out.k = "UFrac"
                    /\ out.n * Gcd(lhs.n, lhs.d) = lhs.n
                    /\ out.d * Gcd(lhs.n, lhs.d) = lhs.d
                    /\ out.n * lhs.d = lhs.n * out.d
                    /\ Gcd(out.n, out.d) = 1
              /\ lhs = UFrac(2, 4) => out = UFrac(1, 2)

C4_Witness ==
    /\ op = "trim"
    /\ lhs = UFrac(2, 4)
    /\ out = UFrac(1, 2)
    /\ alt = UFrac(1, 2)

---------------------------------------------------------------------------
(* C5. Signed Mul and Div: Zero * x = x * Zero = Zero and Zero / nonzero = *)
(* Zero; on non-zero operands the result is Positive for operands of the   *)
(* same sign and Negative for operands of opposite signs, and its          *)
(* magnitude is the unsigned product (quotient) of the magnitudes, whose   *)
(* value is nl*nr / dl*dr (nl*dr / dl*nr); P(1/2) / N(2/1) = N(1/4) and    *)
(* P(2/5) * N(1/4) = N(1/10).                                              *)
C5_SignedMulDiv ==
    /\ (op = "mul" /\ IsSigned(lhs) /\ IsSigned(rhs)) =>
          /\ (lhs.k = "F0" \/ rhs.k = "F0") => out = F0
          /\ (NonZeroSigned(lhs) /\ NonZeroSigned(rhs)) =>
                /\ out.k = IF SameSign(lhs, rhs) THEN "PFrac" ELSE "NFrac"
                /\ Inner(out) = UMul(Inner(lhs), Inner(rhs))
                /\ out.n * (lhs.d * rhs.d) = (lhs.n * rhs.n) * out.d
          /\ (lhs = PFrac(UFrac(2, 5)) /\ rhs = NFrac(UFrac(1, 4)))
                => out = NFrac(UFrac(1, 10))
    /\ (op = "div" /\ IsSigned(lhs) /\ IsSigned(rhs)) =>
          /\ (lhs.k = "F0" /\ NonZeroSigned(rhs)) => out = F0
          /\ (NonZeroSigned(lhs) /\ NonZeroSigned(rhs)) =>
                /\ out.k = IF SameSign(lhs, rhs) THEN "PFrac" ELSE "NFrac"
                /\ Inner(out) = UDiv(Inner(lhs), Inner(rhs))
                /\ out.n * (lhs.d * rhs.n) = (lhs.n * rhs.d) * out.d
          /\ (lhs = PFrac(UFrac(1, 2)) /\ rhs = NFrac(UFrac(2, 1)))
                => out = NFrac(UFrac(1, 4))

C5_Witness ==
    /\ op = "div"
    /\ lhs = PFrac(UFrac(1, 2))
    /\ rhs = NFrac(UFrac(2, 1))
    /\ out = NFrac(UFrac(1, 4))

---------------------------------------------------------------------------
(* C6. Signed Sub is Add with the right operand negated: a - b is the same *)
(* type as a + negate(b); Z - P(b) = N(b), Z - N(b) = P(b), x - Z = x,     *)
(* P(a) - N(b) = P(a + b), N(a) - P(b) = N(a + b).                         *)
C6_SubIsAddNegated ==
    (op = "sub" /\ IsSigned(lhs) /\ IsSigned(rhs)) =>
        /\ IsSigned(out)
        /\ out = Add(lhs, Negate(rhs))
        /\ (lhs.k = "F0" /\ rhs.k = "PFrac") => out = NFrac(Inner(rhs))
        /\ (lhs.k = "F0" /\ rhs.k = "NFrac") => out = PFrac(Inner(rhs))
        /\ rhs.k = "F0" => out = lhs
        /\ (lhs.k = "PFrac" /\ rhs.k = "NFrac")
              => out = PFrac(UAdd(Inner(lhs), Inner(rhs)))
        /\ (lhs.k = "NFrac" /\ rhs.k = "PFrac")
              => out = NFrac(UAdd(Inner(lhs), Inner(rhs)))

C6_Witness ==
    /\ op = "sub"
    /\ lhs = NFrac(UFrac(1, 2))
    /\ rhs = NFrac(UFrac(1, 1))
    /\ out = PFrac(UFrac(1, 2))

---------------------------------------------------------------------------
(* C7. Division/multiplication round trip, as claimed: wherever (a / b) *  *)
(* b is defined it is a itself, also for an a that is not in lowest terms  *)
(* (stated here for a with a non-zero numerator, and for UF0 and F0).      *)
C7_RoundTripExact ==
    (op = "divmul" /\ out # Undef /\ (lhs.k = "UFrac" => lhs.n > 0)) => out = lhs

(* C7, amended: wherever (a / b) * b is defined it is Trim(a), the same    *)
(* sign variant with the magnitude in lowest terms; it is a itself exactly *)
(* when a is UF0, F0, a wrapper of UF0 or in lowest terms.                 *)
C7_RoundTripTrim ==
    (op = "divmul" /\ out # Undef) =>
        /\ out = Trim(lhs)
        /\ out = lhs <=> (lhs.k \in {"UF0", "F0"} \/ (lhs.k # "UFrac" /\ lhs.n = 0)
                            \/ Canonical(lhs))

C7_Witness ==
    /\ op = "divmul"
    /\ lhs = UFrac(2, 4)
    /\ rhs = UFrac(1, 2)
    /\ alt = UFrac(1, 1)
    /\ out = UFrac(1, 2)

---------------------------------------------------------------------------
(* C8. Add and Mul are commutative and associative on results: for         *)
(* canonical signed a, b, c the types a + b and b + a, (a + b) + c and     *)
(* a + (b + c), a * b and b * a, (a * b) * c and a * (b * c) are the same. *)
C8_CommutativeAssociative ==
    (IsSigned(lhs) /\ Canonical(lhs) /\ IsSigned(rhs) /\ Canonical(rhs)) =>
        /\ op = "add" => out = Add(rhs, lhs)
        /\ op = "mul" => out = Mul(rhs, lhs)
        /\ op \in {"addassoc", "mulassoc"} => out = alt

---------------------------------------------------------------------------
(* C9. Non-zero magnitude: from well-formed signed values and integer      *)
(* conversions, after any sequence of signed Add, Sub, Mul, Div and Trim,  *)
(* every Positive or Negative operand or result wraps a magnitude with     *)
(* non-zero numerator and denominator, and every value 0 is F0.            *)
C9_NonZeroMagnitude ==
    \A x \in {lhs, rhs, out} :
        x # Undef =>
            /\ IsSigned(x)
            /\ x.k \in {"PFrac", "NFrac"} => (x.n > 0 /\ x.d > 0)
            /\ x.n = 0 => x = F0

C9_Witness ==
    /\ op = "add"
    /\ lhs.k = "NFrac"
    /\ lhs.n > MaxN
    /\ rhs.k = "PFrac"
    /\ out = F0

---------------------------------------------------------------------------
(* C10. Division by zero is never constructed: no Div, unsigned or signed, *)
(* has a result when the value of the divisor is zero (UF0, F0, a wrapper  *)
(* of UF0 or a UFrac with numerator 0), and no result has denominator 0.   *)
C10_NoDivisionByZero ==
    op \in {"div", "divmul"} =>
        /\ rhs.n = 0 => (out = Undef /\ alt = Undef)
        /\ out # Undef => out.d # 0

---------------------------------------------------------------------------
(* C11. Pow, as claimed: for any UFrac base {n, d}, whatever its           *)
(* numerator, the power of exponent U0 or Z0 is UFrac{1,1}, and the power  *)
(* of an exponent k >= 1 is {n^k, d^k} with non-zero numerator and         *)
(* denominator, in lowest terms whenever the base is.                      *)
C11_PowAnyBase ==
    (op = "pow" /\ lhs.k = "UFrac") =>
        /\ third.k \in {"U0", "Z0"} => out = UFrac(1, 1)
        /\ third.k = "PInt" =>
              /\ out = UFrac(lhs.n ^ third.n, lhs.d ^ third.n)
              /\ out.n > 0
              /\ out.d > 0
              /\ Gcd(lhs.n, lhs.d) = 1 => Gcd(out.n, out.d) = 1

(* C11, amended: the power of exponent U0 or Z0 is UFrac{1,1} for any      *)
(* UFrac base; for an exponent k >= 1 a base with non-zero numerator has   *)
(* the power {n^k, d^k}, with non-zero numerator and denominator and in    *)
(* lowest terms whenever the base is, and a base with numerator 0 has no   *)
(* power.                                                                  *)
C11_PowNonZeroBase ==
    (op = "pow" /\ lhs.k = "UFrac") =>
        /\ third.k \in {"U0", "Z0"} => out = UFrac(1, 1)
        /\ (third.k = "PInt" /\ lhs.n > 0) =>
              /\ out = UFrac(lhs.n ^ third.n, lhs.d ^ third.n)
              /\ out.n > 0
              /\ out.d > 0
              /\ Gcd(lhs.n, lhs.d) = 1 => Gcd(out.n, out.d) = 1
        /\ (third.k = "PInt" /\ lhs.n = 0) => out = Undef

C11_Witness ==
    /\ op = "pow"
    /\ lhs = UFrac(2, 3)
    /\ third = PInt(2)
    /\ out = UFrac(4, 9)

---------------------------------------------------------------------------
(* C12. Unsigned Add and Sub use the least common denominator and are      *)
(* exact: for non-zero nl/dl and nr/dr with g = gcd(dl, dr), Add is        *)
(* (nl*dr)/g + (nr*dl)/g over lcm(dl, dr) = dl*dr/g, of value nl/dl +      *)
(* nr/dr (1/2 + 1/4 is UFrac{3,4}); Sub, for nl/dl >= nr/dr, is built from *)
(* (nl*dr)/g - (nr*dl)/g over lcm(dl, dr) and has the value nl/dl - nr/dr; *)
(* UF0 + x = x + UF0 = x and x - UF0 = x.                                  *)
C12_LeastCommonDenominator ==
    LET g == Gcd(lhs.d, rhs.d)
        m == (lhs.d * rhs.d) \div g
        a == (lhs.n * rhs.d) \div g
        b == (rhs.n * lhs.d) \div g
    IN  /\ (op = "add" /\ NonZeroUFrac(lhs) /\ NonZeroUFrac(rhs)) =>
              /\ out = UFrac(a + b, m)
              /\ m % lhs.d = 0 /\ m % rhs.d = 0
              /\ \A k \in 1..(m - 1) : k % lhs.d # 0 \/ k % rhs.d # 0
              /\ out.n * (lhs.d * rhs.d) = (lhs.n * rhs.d + rhs.n * lhs.d) * out.d
              /\ (lhs = UFrac(1, 2) /\ rhs = UFrac(1, 4)) => out = UFrac(3, 4)
        /\ (op = "sub" /\ NonZeroUFrac(lhs) /\ NonZeroUFrac(rhs)
                /\ lhs.n * rhs.d >= rhs.n * lhs.d) =>
              /\ IsUnsigned(out)
              /\ out = UTrim(UFrac(a - b, m))
              /\ out.n * (lhs.d * rhs.d) = (lhs.n * rhs.d - rhs.n * lhs.d) * out.d
        /\ (op = "add" /\ lhs = UF0 /\ UnsignedRational(rhs)) => out = rhs
        /\ (op = "add" /\ rhs = UF0 /\ UnsignedRational(lhs)) => out = lhs
        /\ (op = "sub" /\ rhs = UF0 /\ IsUnsigned(lhs)) => out = lhs

C12_Witness ==
    /\ op = "add"
    /\ lhs = UFrac(1, 2)
    /\ rhs = UFrac(1, 4)
    /\ out = UFrac(3, 4)

---------------------------------------------------------------------------
(* C13. Unsigned Sub, Mul and Div pass their result through Trim: for two  *)
(* non-zero unsigned fractions, in lowest terms or not (a >= b for Sub),   *)
(* a - b, a * b and a / b are UF0 when the value is 0 and otherwise in     *)
(* lowest terms; 2/5 * 1/4 is UFrac{1,10} and 2/5 / 2/4 is UFrac{4,5}.     *)
C13_TrimmedResults ==
    (NonZeroUFrac(lhs) /\ NonZeroUFrac(rhs)) =>
        /\ (op = "sub" /\ lhs.n * rhs.d >= rhs.n * lhs.d) =>
              /\ IsUnsigned(out) /\ Canonical(out)
              /\ out = UF0 <=> lhs.n * rhs.d = rhs.n * lhs.d
        /\ op \in {"mul", "div"} =>
              /\ out.k = "UFrac" /\ Canonical(out)
        /\ (op = "mul" /\ lhs = UFrac(2, 5) /\ rhs = UFrac(1, 4)) => out = UFrac(1, 10)
        /\ (op = "div" /\ lhs = UFrac(2, 5) /\ rhs = UFrac(2, 4)) => out = UFrac(4, 5)

C13_Witness ==
    /\ op = "mul"
    /\ lhs = UFrac(2, 5)
    /\ rhs = UFrac(1, 4)
    /\ out = UFrac(1, 10)

---------------------------------------------------------------------------
(* C14. Trim lifted to signed fractions: Trim of Positive(u) or            *)
(* Negative(u) trims the magnitude and keeps the sign, and is F0 whenever  *)
(* the trimmed magnitude is UF0 (as for u = UF0); Trim of F0 is F0.        *)
C14_SignedTrimCollapses ==
    (op = "trim" /\ IsSigned(lhs)) =>
        /\ lhs.k = "F0" => out = F0
        /\ (lhs.k \in {"PFrac", "NFrac"} /\ UTrim(Inner(lhs)) # UF0) =>
              /\ out.k = lhs.k
              /\ Inner(out) = UTrim(Inner(lhs))
        /\ (lhs.k \in {"PFrac", "NFrac"} /\ UTrim(Inner(lhs)) = UF0) => out = F0

---------------------------------------------------------------------------
(* C15. The integer layer's partial operations stay in their domain: in    *)
(* Trim gcd(n, d) divides n and d; in unsigned Add and Sub gcd(dl, dr)     *)
(* divides nl*dr and nr*dl; and in mixed-sign Add and same-sign Sub the    *)
(* subtraction of naturals is of the smaller from the larger, as unsigned  *)
(* Sub is reached in the Greater branch of the comparison only, so that    *)
(* every such Sum and Diff has a result.                                   *)
C15_Minuend(l, r) == PartialQuot(Prod(l.n, r.d), Gcf(l.d, r.d))

C15_Subtrahend(l, r) == PartialQuot(Prod(r.n, l.d), Gcf(l.d, r.d))

C15_PartialOperationsDefined ==
    /\ (op = "trim" /\ NonZeroUFrac(lhs)) =>
          /\ PartialQuot(lhs.n, Gcf(lhs.n, lhs.d)) # NoInt
          /\ PartialQuot(lhs.d, Gcf(lhs.n, lhs.d)) # NoInt
          /\ out # Undef
    /\ (op \in {"add", "sub"} /\ NonZeroUFrac(lhs) /\ NonZeroUFrac(rhs)) =>
          /\ C15_Minuend(lhs, rhs) # NoInt
          /\ C15_Subtrahend(lhs, rhs) # NoInt
          /\ op = "add" => out # Undef
    /\ (\/ op = "add" /\ lhs.k = "PFrac" /\ rhs.k = "NFrac"
        \/ op = "add" /\ lhs.k = "NFrac" /\ rhs.k = "PFrac"
        \/ op = "sub" /\ lhs.k = "PFrac" /\ rhs.k = "PFrac"
        \/ op = "sub" /\ lhs.k = "NFrac" /\ rhs.k = "NFrac") =>
          /\ out # Undef
          /\ (NonZeroSigned(lhs) /\ NonZeroSigned(rhs) /\ out # F0) =>
                LET big == IF lhs.n * rhs.d > rhs.n * lhs.d THEN lhs ELSE rhs
                    small == IF lhs.n * rhs.d > rhs.n * lhs.d THEN rhs ELSE lhs
                IN  /\ C15_Minuend(big, small) >= C15_Subtrahend(big, small)
                    /\ Inner(out) = USub(Inner(big), Inner(small))

C15_Witness ==
    /\ op = "sub"
    /\ lhs = PFrac(UFrac(1, 4))
    /\ rhs = PFrac(UFrac(1, 2))
    /\ out = NFrac(UFrac(1, 4))

===========================================================================
